---- MODULE Spec2Model ----
(***************************************************************************)
(* organise_photos.py: organize_files walks a source tree and copies,      *)
(* moves or converts every recognised media file into                      *)
(* dest_dir/<year>/<month>/, choosing a destination name that does not     *)
(* exist yet.  The model keeps the file system (regular files and          *)
(* directories), the walk of os.walk, the locals of the loop body, the     *)
(* lines printed, and how the process ended.                               *)
(***************************************************************************)
EXTENDS Integers, Sequences, FiniteSets, TLC

VARIABLES
    source_dir,      \* argument --source
    dest_dir,        \* argument --dest
    move_files,      \* argument --move
    convert_heic,    \* argument --heic-to-jpeg
    PIL_AVAILABLE,   \* import of PIL succeeded
    HEIF_AVAILABLE,  \* import of pillow_heif succeeded
    files,           \* file system: path -> file, for the directory entries that are not directories
    dirs,            \* file system: the directories that exist
    pc,              \* "start", "walk", "done" (exit 0), "exit1" (sys.exit(1)), "crash" (uncaught exception)
    exc,             \* the call whose exception ended the run, "none" otherwise
    stack,           \* os.walk: the directories still to visit, one frame per level
    root,            \* os.walk: the directory being processed
    todo,            \* the names of `files` of the current directory not yet iterated
    src_path,        \* local of the loop body
    dest_path,       \* local of the loop body
    log,             \* the lines printed to stdout
    files0,          \* the files when the run started
    dirs0            \* the directories when the run started

vars == <<source_dir, dest_dir, move_files, convert_heic, PIL_AVAILABLE, HEIF_AVAILABLE,
          files, dirs, pc, exc, stack, root, todo, src_path, dest_path, log, files0, dirs0>>

args == <<source_dir, dest_dir, move_files, convert_heic, PIL_AVAILABLE, HEIF_AVAILABLE,
          files0, dirs0>>

----------------------------------------------------------------------------
(* Bounds *)

\* at most this many entries under the source root when the run starts
MaxFiles == 2

----------------------------------------------------------------------------
(* Names, paths, dates *)

IMAGE_EXTENSIONS == {".jpg", ".jpeg", ".png", ".gif", ".tiff", ".bmp", ".heic"}

VIDEO_EXTENSIONS == {".mp4", ".mov", ".avi", ".mkv", ".mts", ".wmv"}

\* str.lower() on the extensions the model uses
Lower(ext) ==
    CASE ext = ".JPG" -> ".jpg"
      [] ext = ".HEIC" -> ".heic"
      [] ext = ".MP4" -> ".mp4"
      [] OTHER -> ext

\* A file name is kept split the way os.path.splitext splits it: the stem is
\* base followed by "_<n>" for each n of sfx, then the extension.
FileName(base, sfx, ext) == [base |-> base, sfx |-> sfx, ext |-> ext]

\* os.path.join(directory, name); a directory is the sequence of its segments
Path(dir, name) == [dir |-> dir, name |-> name]

NoPath == Path(<<>>, FileName("", <<>>, ""))

NoDir == <<>>

\* A timestamp, reduced to the two components the program uses
Date(y, m) == [year |-> y, month |-> m]

\* date.strftime('%Y')
Year4(date) == ToString(date.year)

\* date.strftime('%m'): two digits, zero padded
Month2(date) == IF date.month < 10 THEN "0" \o ToString(date.month) ELSE ToString(date.month)

\* datetime.strptime(value, '%Y:%m:%d %H:%M:%S') succeeds
ValidStamp(value) == value.year \in 1..9999 /\ value.month \in 1..12

\* the directories os.makedirs(d, exist_ok=True) makes sure exist
MakeDirs(d) == {SubSeq(d, 1, k) : k \in 1..Len(d)}

IsUnder(d, top) == Len(d) >= Len(top) /\ SubSeq(d, 1, Len(top)) = top

\* os.path.exists: false for an entry that cannot be resolved (a dangling link)
Exists(fs, p) == p \in DOMAIN fs /\ fs[p].mtime # <<>>

----------------------------------------------------------------------------
(* File system operations *)

WriteFile(fs, p, data) == [q \in DOMAIN fs \cup {p} |-> IF q = p THEN data ELSE fs[q]]

\* os.remove
RemoveFile(fs, p) == [q \in DOMAIN fs \ {p} |-> fs[q]]

\* a copy that takes the source away, as a move would
copy2Moving(fs, src, dst) == RemoveFile(WriteFile(fs, dst, fs[src]), src)

\* shutil.copy2: content and metadata
copy2(fs, src, dst) == WriteFile(fs, dst, fs[src])

\* shutil.move: rename, or copy2 then unlink
move(fs, src, dst) == RemoveFile(WriteFile(fs, dst, fs[src]), src)

\* the clock when the run takes place
Now == Date(2026, 11)

\* img.save(dest_path, 'JPEG'): a new file, re-encoded, without the EXIF block
Jpeg(data) == [content |-> [id |-> data.content.id, fmt |-> "jpeg"], exif |-> <<>>, mtime |-> <<Now>>]

\* what an interrupted copy leaves behind
Partial(data) == [content |-> [id |-> data.content.id, fmt |-> "partial"], exif |-> <<>>, mtime |-> <<Now>>]

----------------------------------------------------------------------------
(* get_creation_date *)

\* the try block: the parsed DateTimeOriginal as <<date>>, or <<>> when the
\* block is not entered, finds no tag, or raises (the exception is swallowed)
ExifDate(fs, path) ==
    LET ext == Lower(path.name.ext)
        exif_data == fs[path].exif
    IN  IF PIL_AVAILABLE /\ ext \in IMAGE_EXTENSIONS /\ ext # ".heic"
           /\ exif_data # <<>> /\ ValidStamp(exif_data[1])
        THEN <<exif_data[1]>>
        ELSE <<>>

\* <<date>>, or <<>> when os.path.getmtime raises
get_creation_date(fs, path) ==
    IF ExifDate(fs, path) # <<>> THEN ExifDate(fs, path) ELSE fs[path].mtime

----------------------------------------------------------------------------
(* Destination path *)

Recognised(filename) ==
    Lower(filename.ext) \in IMAGE_EXTENSIONS \/ Lower(filename.ext) \in VIDEO_EXTENSIONS

IsConvert(filename) == convert_heic /\ Lower(filename.ext) = ".heic"

TargetFolder(date) == dest_dir \o <<Year4(date), Month2(date)>>

DestName(filename) ==
    IF IsConvert(filename) THEN FileName(filename.base, filename.sfx, ".jpg") ELSE filename

\* f"{name}_{counter}{extn}" with name, extn = splitext(dest_name)
Suffixed(name, counter) == FileName(name.base, Append(name.sfx, counter), name.ext)

\* the suffix appended to the path tried last instead of to dest_name
NextCandidateStacked(target_folder, dest_name, path, counter) ==
    Path(target_folder, Suffixed(path.name, counter))

\* the body of the collision loop: the next path to try
NextCandidate(target_folder, dest_name, path, counter) ==
    Path(target_folder, Suffixed(dest_name, counter))

RECURSIVE Probe(_, _, _, _, _)
\* while os.path.exists(dest_path): ...
Probe(fs, target_folder, dest_name, path, counter) ==
    IF Exists(fs, path)
    THEN Probe(fs, target_folder, dest_name,
               NextCandidate(target_folder, dest_name, path, counter), counter + 1)
    ELSE path

ChooseDest(fs, filename, date) ==
    Probe(fs, TargetFolder(date), DestName(filename),
          Path(TargetFolder(date), DestName(filename)), 1)

----------------------------------------------------------------------------
(* Initial states: the arguments, the imports and the file system *)

D1 == Date(2020, 1)

D2 == Date(2021, 3)

NameA == FileName("a", <<>>, ".jpg")

SourceCandidates(sd) ==
    << Path(sd, NameA),
       Path(sd, FileName("a", <<>>, ".HEIC")),
       Path(sd, FileName("n", <<>>, ".txt")),
       Path(sd \o <<"sub">>, NameA),
       Path(sd \o <<"sub">>, FileName("a", <<>>, ".MP4")) >>

Plain == [exif |-> <<>>, mtime |-> <<D2>>]

\* a dangling link: listed by the walk, but stat fails
Dangling == [exif |-> <<>>, mtime |-> <<>>]

\* The EXIF tag (none, valid, unparsable) and the modification time an entry
\* may start with, as far as the program can tell them apart for its extension
Variants(name) ==
    IF ~(Lower(name.ext) \in IMAGE_EXTENSIONS \cup VIDEO_EXTENSIONS) THEN {Plain}
    ELSE IF Lower(name.ext) \in VIDEO_EXTENSIONS THEN {Plain, Dangling}
    ELSE IF Lower(name.ext) = ".heic"
    THEN {Plain, Dangling, [exif |-> <<D1>>, mtime |-> <<D2>>]}
    ELSE {Plain, Dangling,
          [exif |-> <<D1>>, mtime |-> <<D2>>],
          [exif |-> <<Date(2020, 13)>>, mtime |-> <<D2>>],
          [exif |-> <<>>, mtime |-> <<D1>>]}

Original(i, v) == [content |-> [id |-> i, fmt |-> "orig"], exif |-> v.exif, mtime |-> v.mtime]

DestCandidate(dd) == Path(dd \o <<"2020", "01">>, NameA)

InitialFiles(sd, dd, S, m, withDest) ==
    LET cand == SourceCandidates(sd)
        P == {cand[i] : i \in S} \cup (IF withDest THEN {DestCandidate(dd)} ELSE {})
    IN  [p \in P |->
            IF p = DestCandidate(dd)
            THEN Original(0, [exif |-> <<D1>>, mtime |-> <<D2>>])
            ELSE LET i == CHOOSE j \in S : cand[j] = p IN Original(i, m[i])]

Init ==
    /\ source_dir = <<"src">>
    /\ dest_dir \in {<<"dst">>, <<"src", "out">>}
    /\ move_files \in BOOLEAN
    /\ convert_heic \in BOOLEAN
    /\ PIL_AVAILABLE \in BOOLEAN
    \* pillow_heif imports PIL: it is not there without it
    /\ HEIF_AVAILABLE \in {FALSE, PIL_AVAILABLE}
    /\ \E srcExists \in BOOLEAN, withDest \in BOOLEAN,
          S \in SUBSET (1..Len(SourceCandidates(source_dir))) :
          /\ Cardinality(S) <= MaxFiles
          /\ ~srcExists => S = {} /\ ~(withDest /\ IsUnder(dest_dir, source_dir))
          /\ \E m \in [S -> Variants(NameA)] :
                /\ \A i \in S : m[i] \in Variants(SourceCandidates(source_dir)[i].name)
                /\ files = InitialFiles(source_dir, dest_dir, S, m, withDest)
          /\ dirs = (IF srcExists THEN {source_dir} ELSE {})
                    \cup UNION {MakeDirs(p.dir) : p \in DOMAIN files}
    /\ pc = "start"
    /\ exc = "none"
    /\ stack = <<>>
    /\ root = NoDir
    /\ todo = {}
    /\ src_path = NoPath
    /\ dest_path = NoPath
    /\ log = <<>>
    /\ files0 = files
    /\ dirs0 = dirs

----------------------------------------------------------------------------
(* organize_files: pre-flight *)

\* if not os.path.isdir(source_dir): sys.exit(1)
SourceMissing ==
    /\ pc = "start"
    /\ source_dir \notin dirs
    /\ pc' = "exit1"
    /\ UNCHANGED <<args, files, dirs, exc, stack, root, todo, src_path, dest_path, log>>

\* the capability check placed after os.makedirs(dest_dir)
HeifMissingAfterMakedirs ==
    /\ pc = "start"
    /\ source_dir \in dirs
    /\ convert_heic /\ ~HEIF_AVAILABLE
    /\ dirs' = dirs \cup MakeDirs(dest_dir)
    /\ pc' = "exit1"
    /\ UNCHANGED <<args, files, exc, stack, root, todo, src_path, dest_path, log>>

\* if convert_heic and not HEIF_AVAILABLE: sys.exit(1)
HeifMissing ==
    /\ pc = "start"
    /\ source_dir \in dirs
    /\ convert_heic /\ ~HEIF_AVAILABLE
    /\ pc' = "exit1"
    /\ UNCHANGED <<args, files, dirs, exc, stack, root, todo, src_path, dest_path, log>>

\* os.makedirs(dest_dir, exist_ok=True), then os.walk(source_dir) is set up
Start ==
    /\ pc = "start"
    /\ source_dir \in dirs
    /\ ~(convert_heic /\ ~HEIF_AVAILABLE)
    /\ dirs' = dirs \cup MakeDirs(dest_dir)
    /\ stack' = << {source_dir} >>
    /\ pc' = "walk"
    /\ UNCHANGED <<args, files, exc, root, todo, src_path, dest_path, log>>

----------------------------------------------------------------------------
(* os.walk, top down: a directory is listed when the walk reaches it *)

Subdirs(d) == {x \in dirs : Len(x) = Len(d) + 1 /\ SubSeq(x, 1, Len(d)) = d}

Listing(d) == {p.name : p \in {q \in DOMAIN files : q.dir = d}}

Push(st, frame) == IF frame = {} THEN st ELSE <<frame>> \o st

\* the next directory of the walk: any directory of the innermost level
\* (scandir's order is arbitrary); its entries are read now
WalkNext ==
    /\ pc = "walk"
    /\ todo = {}
    /\ stack # <<>>
    /\ \E d \in Head(stack) :
          /\ root' = d
          /\ todo' = Listing(d)
          /\ stack' = Push(Push(Tail(stack), Head(stack) \ {d}), Subdirs(d))
    /\ UNCHANGED <<args, files, dirs, pc, exc, src_path, dest_path, log>>

\* the walk is exhausted: organize_files returns, the process exits with 0
Finish ==
    /\ pc = "walk"
    /\ todo = {}
    /\ stack = <<>>
    /\ pc' = "done"
    /\ UNCHANGED <<args, files, dirs, exc, stack, root, todo, src_path, dest_path, log>>

----------------------------------------------------------------------------
(* organize_files: the loop body, one file per step *)

Line(verb, src, dst) == [verb |-> verb, src |-> src, dest |-> dst]

\* the date of the file, once get_creation_date has returned one
DateOf(filename) == get_creation_date(files, Path(root, filename))[1]

\* the file is selected and its date resolved: the body reaches "Perform operation"
Ready(filename) ==
    /\ pc = "walk"
    /\ filename \in todo
    /\ Recognised(filename)
    /\ get_creation_date(files, Path(root, filename)) # <<>>

\* what every pass through the body does besides the operation itself:
\* os.makedirs(target_folder), the locals, the lines printed, the next iteration
Body(filename, fs, lines, pc2, exc2) ==
    /\ files' = fs
    /\ dirs' = dirs \cup MakeDirs(TargetFolder(DateOf(filename)))
    /\ src_path' = Path(root, filename)
    /\ dest_path' = ChooseDest(files, filename, DateOf(filename))
    /\ log' = log \o lines
    /\ todo' = todo \ {filename}
    /\ pc' = pc2
    /\ exc' = exc2
    /\ UNCHANGED <<args, stack, root>>

\* if ext in IMAGE_EXTENSIONS or ext in VIDEO_EXTENSIONS: otherwise nothing happens
SkipFile ==
    /\ pc = "walk"
    /\ \E filename \in todo :
          /\ ~Recognised(filename)
          /\ todo' = todo \ {filename}
    /\ UNCHANGED <<args, files, dirs, pc, exc, stack, root, src_path, dest_path, log>>

\* os.path.getmtime raises in get_creation_date: nothing catches it
DateFail ==
    /\ pc = "walk"
    /\ \E filename \in todo :
          /\ Recognised(filename)
          /\ get_creation_date(files, Path(root, filename)) = <<>>
          /\ src_path' = Path(root, filename)
    /\ pc' = "crash"
    /\ exc' = "getmtime"
    /\ UNCHANGED <<args, files, dirs, stack, root, todo, dest_path, log>>

\* shutil.copy2(src_path, dest_path) and the print
CopyOk ==
    \E filename \in todo :
        /\ Ready(filename) /\ ~IsConvert(filename) /\ ~move_files
        /\ LET src == Path(root, filename)
               dst == ChooseDest(files, filename, DateOf(filename))
           IN  Body(filename, copy2(files, src, dst),
                    <<Line("Copied", src, dst)>>, "walk", "none")

\* shutil.copy2 raises (unreadable source, full disk): nothing catches it;
\* the destination may have been started
CopyFail ==
    \E filename \in todo, partial \in BOOLEAN :
        /\ Ready(filename) /\ ~IsConvert(filename) /\ ~move_files
        /\ LET src == Path(root, filename)
               dst == ChooseDest(files, filename, DateOf(filename))
           IN  Body(filename,
                    IF partial THEN WriteFile(files, dst, Partial(files[src])) ELSE files,
                    <<>>, "crash", "copy2")

\* shutil.move(src_path, dest_path) and the print
MoveOk ==
    \E filename \in todo :
        /\ Ready(filename) /\ ~IsConvert(filename) /\ move_files
        /\ LET src == Path(root, filename)
               dst == ChooseDest(files, filename, DateOf(filename))
           IN  Body(filename, move(files, src, dst),
                    <<Line("Moved", src, dst)>>, "walk", "none")

\* shutil.move raises: nothing catches it; the source is still there, the
\* destination may have been started (a move across file systems copies first)
MoveFail ==
    \E filename \in todo, partial \in BOOLEAN :
        /\ Ready(filename) /\ ~IsConvert(filename) /\ move_files
        /\ LET src == Path(root, filename)
               dst == ChooseDest(files, filename, DateOf(filename))
           IN  Body(filename,
                    IF partial THEN WriteFile(files, dst, Partial(files[src])) ELSE files,
                    <<>>, "crash", "move")

\* Image.open, img.save, the print, and os.remove under --move
ConvertOk ==
    \E filename \in todo :
        /\ Ready(filename) /\ IsConvert(filename)
        /\ LET src == Path(root, filename)
               dst == ChooseDest(files, filename, DateOf(filename))
               saved == WriteFile(files, dst, Jpeg(files[src]))
           IN  Body(filename,
                    IF move_files THEN RemoveFile(saved, src) ELSE saved,
                    <<Line("Converted", src, dst)>>, "walk", "none")

\* the source removed under --move although the conversion failed
ConvertFailDeletesSource ==
    \E filename \in todo :
        /\ Ready(filename) /\ IsConvert(filename)
        /\ Body(filename,
                IF move_files THEN RemoveFile(files, Path(root, filename)) ELSE files,
                <<Line("Failed to convert", Path(root, filename), NoPath)>>, "walk", "none")

\* Image.open or img.save raises: Pillow removes the file it created; the
\* except branch prints and the loop goes on
ConvertFail ==
    \E filename \in todo :
        /\ Ready(filename) /\ IsConvert(filename)
        /\ Body(filename, files,
                <<Line("Failed to convert", Path(root, filename), NoPath)>>, "walk", "none")

\* img.save succeeded and "Converted" was printed, then os.remove raises inside
\* the same try block: the except branch prints "Failed to convert"
ConvertRemoveFail ==
    \E filename \in todo :
        /\ Ready(filename) /\ IsConvert(filename) /\ move_files
        /\ LET src == Path(root, filename)
               dst == ChooseDest(files, filename, DateOf(filename))
           IN  Body(filename, WriteFile(files, dst, Jpeg(files[src])),
                    <<Line("Converted", src, dst), Line("Failed to convert", src, NoPath)>>,
                    "walk", "none")

Next ==
    \/ SourceMissing
    \/ HeifMissing
    \/ Start
    \/ WalkNext
    \/ Finish
    \/ SkipFile
    \/ DateFail
    \/ CopyOk
    \/ CopyFail
    \/ MoveOk
    \/ MoveFail
    \/ ConvertOk
    \/ ConvertFail
    \/ ConvertRemoveFail

Spec == Init /\ [][Next]_vars

----------------------------------------------------------------------------
(* Vocabulary of the properties *)

Last(seq) == seq[Len(seq)]

\* this step is a pass of the loop body over the recognised file `filename`
Handled(filename) == filename \in todo /\ filename \notin todo' /\ Recognised(filename)

\* the entries under the source root when the run started
Source0 == {p \in DOMAIN files0 : IsUnder(p.dir, source_dir)}

\* the entries under the destination root when the run started
Dest0 == {p \in DOMAIN files0 : IsUnder(p.dir, dest_dir)}

\* the media files the traversal is meant to place
Recognised0 == {p \in Source0 : Recognised(p.name)}

Success(line) == line.verb \in {"Copied", "Moved", "Converted"}

HasValidExif(data) == data.exif # <<>> /\ ValidStamp(data.exif[1])

----------------------------------------------------------------------------
(* C1 *)

\* C1 (collision safety): no file that was in the destination tree when the
\* run started is ever overwritten, changed or removed, and two distinct
\* source files placed under the same folder and destination filename end up
\* as two separate destination files, each at the base name or a suffixed name.
CollisionSafety ==
    /\ \A p \in Dest0 : p \in DOMAIN files /\ files[p] = files0[p]
    /\ \A i, j \in DOMAIN log :
          (/\ i < j /\ Success(log[i]) /\ Success(log[j])
           /\ log[i].src \in Source0 /\ log[j].src \in Source0
           /\ log[i].src # log[j].src
           /\ log[i].dest.dir = log[j].dest.dir
           /\ DestName(log[i].src.name) = DestName(log[j].src.name))
          => /\ log[i].dest # log[j].dest
             /\ log[i].dest \in DOMAIN files
             /\ log[j].dest \in DOMAIN files

----------------------------------------------------------------------------
(* C2 *)

\* C2 (conversion failure is clean): whenever a step reports "Failed to
\* convert", the source file still exists unchanged and no file exists at the
\* destination path chosen for it.
ConversionFailureIsClean ==
    [][ (log' # log /\ Last(log').verb = "Failed to convert")
        => /\ src_path' \in DOMAIN files'
           /\ files'[src_path'] = files[src_path']
           /\ dest_path' \notin DOMAIN files' ]_vars

----------------------------------------------------------------------------
(* C3 *)

\* C3 (EXIF date wins): with the image library present, every file with an
\* image extension, .heic included, that carries a valid DateTimeOriginal is
\* placed in the year/month folder of the tag.
ExifDateWins ==
    [][ \A filename \in todo :
          (/\ Handled(filename)
           /\ PIL_AVAILABLE
           /\ Lower(filename.ext) \in IMAGE_EXTENSIONS
           /\ HasValidExif(files[Path(root, filename)]))
          => LET tag == files[Path(root, filename)].exif[1]
             IN  dest_path'.dir = dest_dir \o <<Year4(tag), Month2(tag)>> ]_vars

----------------------------------------------------------------------------
(* C4 *)

\* C4 (date resolution never fails outward): no run is ended by an exception
\* raised in get_creation_date.
DateResolutionNeverFails == ~(pc = "crash" /\ exc = "getmtime")

----------------------------------------------------------------------------
(* C6 *)

\* C6 (a per-file failure does not stop the run): no run is ended by the
\* failure of the copy or the move of an individual file.
PlacementFailureDoesNotStop == ~(pc = "crash" /\ exc \in {"copy2", "move"})

----------------------------------------------------------------------------
(* C10 *)

\* C10 (exactly-once placement): every file placed was in the source tree as a
\* recognised file when the run started and is placed once, and a copy run
\* that ends without a failure has added exactly one destination file per
\* recognised source file.
ExactlyOncePlacement ==
    /\ \A i \in DOMAIN log : log[i].src \in Recognised0
    /\ \A i, j \in DOMAIN log :
          (Success(log[i]) /\ Success(log[j]) /\ log[i].src = log[j].src) => i = j
    /\ (pc = "done" /\ ~move_files /\ \A i \in DOMAIN log : Success(log[i]))
          => Cardinality(DOMAIN files) = Cardinality(DOMAIN files0) + Cardinality(Recognised0)

----------------------------------------------------------------------------
(* C5 *)

\* the pre-flight conditions under which organize_files must give up
PreflightFails == source_dir \notin dirs0 \/ (convert_heic /\ ~HEIF_AVAILABLE)

\* C5 (pre-flight failures touch nothing): when the source is missing or the
\* conversion is requested without the decoder, the run can only end in
\* sys.exit(1), and the files, the directories (the destination root included)
\* and the output are as they were; sys.exit(1) is reached in no other case.
PreflightTouchesNothing ==
    /\ PreflightFails =>
          /\ pc \in {"start", "exit1"}
          /\ files = files0
          /\ dirs = dirs0
          /\ log = <<>>
    /\ pc = "exit1" => PreflightFails

PreflightWitness ==
    /\ pc = "exit1"
    /\ source_dir \in dirs
    /\ convert_heic /\ ~HEIF_AVAILABLE
    /\ Recognised0 # {}
    /\ dest_dir \notin dirs

----------------------------------------------------------------------------
(* C7 *)

\* what the destination of a move must hold: the JPEG of the source for a
\* converted HEIC, the source itself otherwise
MovedData(filename, data) == IF IsConvert(filename) THEN Jpeg(data) ELSE data

\* C7 (move semantics): a step removes a file only under --move, only the
\* file being processed, and only together with a destination that did not
\* exist before and now holds its content; and when a step under --move
\* reports "Moved" or "Converted" as its last line, the source is gone and the
\* destination holds the content.
MoveSemantics ==
    [][ /\ \A p \in DOMAIN files :
              p \notin DOMAIN files'
              => /\ move_files
                 /\ p = src_path'
                 /\ dest_path' \notin DOMAIN files
                 /\ dest_path' \in DOMAIN files'
                 /\ files'[dest_path'] = MovedData(p.name, files[p])
        /\ (move_files /\ log' # log /\ Success(Last(log')))
              => /\ Last(log').src = src_path'
                 /\ Last(log').dest = dest_path'
                 /\ src_path' \notin DOMAIN files'
                 /\ dest_path' \in DOMAIN files'
                 /\ files'[dest_path'] = MovedData(src_path'.name, files[src_path']) ]_vars

MoveWitness ==
    /\ move_files
    /\ \E i, j \in DOMAIN log :
          /\ log[i].verb = "Moved" /\ log[i].src \notin DOMAIN files
          /\ log[j].verb = "Converted" /\ log[j].src \notin DOMAIN files
          /\ log[j].dest \in DOMAIN files
          /\ files[log[j].dest].content.fmt = "jpeg"

----------------------------------------------------------------------------
(* C8 *)

\* C8 (copy semantics): in a run without --move every entry that was under
\* the source root when the run started is still there and unchanged (the
\* converted HEIC files too), no directory is gone, and every file reported
\* "Copied" exists beside its destination with identical content and metadata.
CopySemantics ==
    ~move_files =>
        /\ \A p \in Source0 : p \in DOMAIN files /\ files[p] = files0[p]
        /\ dirs0 \subseteq dirs
        /\ \A i \in DOMAIN log :
              log[i].verb = "Copied"
              => /\ log[i].src # log[i].dest
                 /\ log[i].src \in DOMAIN files
                 /\ log[i].dest \in DOMAIN files
                 /\ files[log[i].dest] = files[log[i].src]

CopyWitness ==
    /\ ~move_files
    /\ pc = "done"
    /\ \E i, j \in DOMAIN log :
          /\ log[i].verb = "Copied" /\ log[i].src \in Source0
          /\ log[j].verb = "Converted" /\ log[j].src \in Source0

----------------------------------------------------------------------------
(* C9 *)

\* C9 (suffix selection): the path chosen for a file does not exist yet, lies
\* in the folder of its date, and is named by the base name if that is free,
\* and otherwise by the base name with the suffix k, for the smallest k >= 1
\* that is free: the suffix is applied to the base name, never to a suffixed one.
SuffixSelection ==
    [][ \A filename \in todo :
          Handled(filename)
          => LET folder == TargetFolder(DateOf(filename))
                 name == DestName(filename)
             IN  /\ dest_path'.dir = folder
                 /\ ~Exists(files, dest_path')
                 /\ \/ dest_path'.name = name
                    \/ \E k \in 1..Cardinality(DOMAIN files) :
                          /\ dest_path'.name = Suffixed(name, k)
                          /\ Exists(files, Path(folder, name))
                          /\ \A j \in 1..(k - 1) : Exists(files, Path(folder, Suffixed(name, j))) ]_vars

SuffixWitness ==
    /\ dest_path.name.sfx = <<2>>
    /\ dest_path \in DOMAIN files
    /\ Path(dest_path.dir, Suffixed(DestName(src_path.name), 1)) \in DOMAIN files

====
